---- MODULE Spec2Model ----
(***************************************************************************)
(* A model of nano-get, a minimal HTTP(S) GET client: URL decomposition    *)
(* (src/url), request construction and serialization (src/request.rs,      *)
(* src/http.rs) and response parsing (src/response.rs).                    *)
(*                                                                         *)
(* Strings are sequences of one-character strings, so that searching,      *)
(* splitting and concatenation are computed character by character.        *)
(* Option<T> is a sequence of length at most one: None is <<>> and Some(x) *)
(* is <<x>>.                                                               *)
(***************************************************************************)
EXTENDS Naturals, Sequences, FiniteSets, TLC

VARIABLES
    raw,          \* the string handed to URL::new
    url,          \* Option<URL>: the value URL::new returned
    rest,         \* URL::new's local `rest` (the remainder after the scheme)
    full_domain,  \* URL::new's local `full_domain`
    full_url,     \* Option<String>: what URL::get_full_url returned
    text,         \* the response text handed to the response parser
    response,     \* Option: what new_response_from_complete returned (or a panic)
    heads,        \* new_response_from_complete's local `heads` (the head block)
    legacy_body,  \* Option<String>: what http/mod.rs parse_body_from_response returned
    request,      \* Option<Request>: the request under construction or execution
    given,        \* the (key, value) pairs handed to Request::new, in Vec order
    added,        \* the (key, value) pairs of the add_header calls so far, in call order
    pc,           \* where execute is
    pending,      \* the header keys the iteration of write_std_headers has yet to yield
    order,        \* the header keys (get_http: the header lines) in the order they were taken up
    written,      \* the bytes that reached the stream
    trace,        \* the operations attempted on the stream, each with its outcome
    buf,          \* read_response's Vec `lines`: the bytes read_to_end has read so far
    received,     \* Option: the bytes read_to_end returned
    result,       \* Option: what execute returned to its caller (or a panic)
    feature_https, \* whether the crate is built with the "https" feature
    entry,        \* the function the caller entered through: "execute", "get" or "get_http"
    transport     \* the stream the request goes over: "plain" (TcpStream) or "tls" (SslStream)

urlVars == <<raw, url, rest, full_domain, full_url>>
respVars == <<text, response, heads, legacy_body>>
reqVars == <<request, given, added>>
execVars == <<pc, pending, order, written, trace, received, result,
              feature_https, entry, transport, buf>>
vars == <<raw, url, rest, full_domain, full_url, text, response, heads, legacy_body,
          request, given, added, pc, pending, order, written, trace, received, result,
          feature_https, entry, transport, buf>>

----------------------------------------------------------------------------
(* Bounds of the model *)

\* longest text that follows the scheme prefix of an input url
MaxRest == 6
\* most pieces (line breaks, letters, ...) that follow the status line of a response text
MaxPieces == 6
\* most add_header calls on one request
MaxAdds == 2
\* most bytes of a failing write that still reach the stream
MaxPartial == 2
\* most bytes one read of the response returns
MaxChunk == 8

----------------------------------------------------------------------------
(* Option and strings *)

None == <<>>
Some(x) == <<x>>

\* all strings over alphabet A of length at most n
Strs(A, n) == UNION {[1..k -> A] : k \in 0..n}

\* s[i..] and s[0..i] with Rust's 0-based byte offsets
From(s, i) == SubSeq(s, i + 1, Len(s))
Upto(s, i) == SubSeq(s, 1, i)

\* pat occurs in s at 0-based offset i
OccursAt(s, pat, i) ==
    /\ i + Len(pat) <= Len(s)
    /\ SubSeq(s, i + 1, i + Len(pat)) = pat

\* str::find: the offset of the first occurrence of pat, or None
find(s, pat) ==
    LET hits == {i \in 0..Len(s) : OccursAt(s, pat, i)}
    IN  IF hits = {} THEN None
        ELSE Some(CHOOSE i \in hits : \A j \in hits : i <= j)

\* str::split: every non-overlapping occurrence of pat, left to right, cuts
RECURSIVE split(_, _)
split(s, pat) ==
    LET f == find(s, pat)
    IN  IF f = None THEN <<s>>
        ELSE <<Upto(s, f[1])>> \o split(From(s, f[1] + Len(pat)), pat)

\* str::splitn: at most n parts, the last one holding the uncut remainder
RECURSIVE splitn(_, _, _)
splitn(n, s, pat) ==
    IF n = 0 THEN <<>>
    ELSE IF n = 1 THEN <<s>>
    ELSE LET f == find(s, pat)
         IN  IF f = None THEN <<s>>
             ELSE <<Upto(s, f[1])>> \o splitn(n - 1, From(s, f[1] + Len(pat)), pat)

----------------------------------------------------------------------------
(* String literals of the source *)

SchemeSep == <<":", "/", "/">>
Colon == <<":">>
Slash == <<"/">>
http == <<"h", "t", "t", "p">>
https == <<"h", "t", "t", "p", "s">>
ftp == <<"f", "t", "p">>
Port80 == <<"8", "0">>
Port443 == <<"4", "4", "3">>

----------------------------------------------------------------------------
(* src/url/models.rs, Tuple::from_iter: the first two items of an iterator; *)
(* fewer than two items is a panic.                                         *)

Panic == [kind |-> "panic"]

Tuple_from_iter(items) ==
    IF Len(items) >= 2 THEN [left |-> items[1], right |-> items[2]]
    ELSE Panic

----------------------------------------------------------------------------
(* src/url/mod.rs *)

parse_proto_before_last_separator(s, default_proto) ==
    LET parts == split(s, SchemeSep)
    IN  IF Len(parts) > 1 THEN <<parts[Len(parts) - 1], parts[Len(parts)]>>
        ELSE IF default_proto # None THEN <<default_proto[1], parts[1]>>
        ELSE <<http, parts[1]>>

parse_proto(s, default_proto) ==
    LET parts == split(s, SchemeSep)
    IN  IF Len(parts) > 1 THEN <<parts[1], parts[2]>>
        ELSE IF default_proto # None THEN <<default_proto[1], parts[1]>>
        ELSE <<http, parts[1]>>

parse_full_domain_drops_slash(s, default_path) ==
    LET f == find(s, Slash)
    IN  IF f # None THEN <<Upto(s, f[1]), From(s, f[1] + 1)>>
        ELSE IF default_path # None THEN <<s, default_path[1]>>
        ELSE <<s, <<>> >>

parse_full_domain(s, default_path) ==
    LET f == find(s, Slash)
    IN  IF f # None THEN <<Upto(s, f[1]), From(s, f[1])>>
        ELSE IF default_path # None THEN <<s, default_path[1]>>
        ELSE <<s, Slash>>

parse_host_and_port_last_colon(s, default_port) ==
    IF find(s, Colon) # None
    THEN LET cuts == {i \in 0..Len(s) : OccursAt(s, Colon, i)}
             last == CHOOSE i \in cuts : \A j \in cuts : j <= i
         IN  <<Upto(s, last), From(s, last + 1)>>
    ELSE IF default_port # None THEN <<s, default_port[1]>>
    ELSE <<s, Port80>>

parse_host_and_port_no_fallback(s, default_port) ==
    IF find(s, Colon) # None
    THEN LET tuple == Tuple_from_iter(splitn(2, s, Colon))
         IN  <<tuple.left, tuple.right>>
    ELSE IF default_port # None THEN <<s, default_port[1]>>
    ELSE <<s, <<>> >>

parse_host_and_port(s, default_port) ==
    IF find(s, Colon) # None
    THEN LET tuple == Tuple_from_iter(splitn(2, s, Colon))
         IN  <<tuple.left, tuple.right>>
    ELSE IF default_port # None THEN <<s, default_port[1]>>
    ELSE <<s, Port80>>

----------------------------------------------------------------------------
(* src/url/models.rs *)

get_default_port_for_proto(proto) ==
    IF proto = http THEN Some(Port80)
    ELSE IF proto = https THEN Some(Port443)
    ELSE None

URL_new(u) ==
    LET pr == parse_proto(u, None)
        fd == parse_full_domain(pr[2], None)
        hp == parse_host_and_port(fd[1], get_default_port_for_proto(pr[1]))
    IN  [protocol |-> pr[1], host |-> hp[1], port |-> hp[2], path |-> fd[2],
         _absolute |-> u]

get_full_url(u) == u.protocol \o SchemeSep \o u.host \o Colon \o u.port \o u.path

get_host_with_port(u) == u.host \o Colon \o u.port

----------------------------------------------------------------------------
(* HashMap<String, String>: a function from keys to values *)

EmptyMap == [k \in {} |-> <<>>]

insert(m, k, v) == [x \in (DOMAIN m) \cup {k} |-> IF x = k THEN v ELSE m[x]]

----------------------------------------------------------------------------
(* src/response.rs *)

CRLF == <<"\r", "\n">>
CRLFCRLF == <<"\r", "\n", "\r", "\n">>
Space == <<" ">>

\* U+FFFD, which String::from_utf8_lossy puts in place of an invalid byte; it
\* is the one character of the model that is three bytes long in UTF-8.
ReplacementChar == "U+FFFD"
Utf8Len(c) == IF c = ReplacementChar THEN 3 ELSE 1

\* str::len: the length in bytes
RECURSIVE len(_)
len(s) == IF s = <<>> THEN 0 ELSE Utf8Len(s[1]) + len(Tail(s))

Whitespace == {" ", "\t", "\r", "\n", "\f"}

\* str::trim
RECURSIVE trim_start(_)
trim_start(s) ==
    IF s # <<>> /\ s[1] \in Whitespace THEN trim_start(Tail(s)) ELSE s

RECURSIVE trim_end(_)
trim_end(s) ==
    IF s # <<>> /\ s[Len(s)] \in Whitespace
    THEN trim_end(SubSeq(s, 1, Len(s) - 1)) ELSE s

trim(s) == trim_end(trim_start(s))

Digits == {"0", "1", "2", "3", "4", "5", "6", "7", "8", "9"}
DigitValue(c) ==
    CASE c = "0" -> 0 [] c = "1" -> 1 [] c = "2" -> 2 [] c = "3" -> 3
      [] c = "4" -> 4 [] c = "5" -> 5 [] c = "6" -> 6 [] c = "7" -> 7
      [] c = "8" -> 8 [] c = "9" -> 9

RECURSIVE DecimalValue(_)
DecimalValue(s) ==
    IF s = <<>> THEN 0
    ELSE 10 * DecimalValue(SubSeq(s, 1, Len(s) - 1)) + DigitValue(s[Len(s)])

\* code.parse::<u16>(): an optional '+', then one or more decimal digits, the
\* value fitting 16 bits; Err otherwise
parse_u16(s) ==
    LET digits == IF s # <<>> /\ s[1] = "+" THEN Tail(s) ELSE s
    IN  IF digits = <<>> \/ \E i \in 1..Len(digits) : digits[i] \notin Digits
        THEN [kind |-> "Err"]
        ELSE IF DecimalValue(digits) >= 65536 THEN [kind |-> "Err"]
        ELSE [kind |-> "Ok", val |-> DecimalValue(digits)]

\* StatusCode::from_code; parse().unwrap() panics on a token that is no number
StatusCode_from_code(code0) ==
    LET code == trim(code0)
    IN  IF len(code) # 3 THEN [kind |-> "Failure"]
        ELSE LET parsed == parse_u16(code)
             IN  IF parsed.kind = "Err" THEN Panic
                 ELSE LET code_num == parsed.val
                      IN  IF code_num \in 100..199
                          THEN [kind |-> "Informational", code |-> code_num]
                          ELSE IF code_num \in 200..299
                          THEN [kind |-> "Success", code |-> code_num]
                          ELSE IF code_num \in 300..399
                          THEN [kind |-> "Redirection", code |-> code_num]
                          ELSE IF code_num \in 400..499
                          THEN [kind |-> "ClientError", code |-> code_num]
                          ELSE IF code_num \in 500..599
                          THEN [kind |-> "ServerError", code |-> code_num]
                          ELSE [kind |-> "Failure"]

\* StatusCode::get_code
StatusCode_get_code(status) ==
    IF status.kind \in {"Informational", "ClientError", "ServerError",
                        "Success", "Redirection"}
    THEN Some(status.code)
    ELSE None

\* process_response_headers: None for no line at all; every line with a ':'
\* is cut at its first ':' and inserted, later lines overwriting earlier ones
RECURSIVE insert_header_lines(_, _)
insert_header_lines(headers, lines) ==
    IF lines = <<>> THEN headers
    ELSE LET line == lines[1]
         IN  IF find(line, Colon) # None
             THEN LET line_comp == Tuple_from_iter(splitn(2, line, Colon))
                  IN  insert_header_lines(
                          insert(headers, line_comp.left, trim(line_comp.right)),
                          Tail(lines))
             ELSE insert_header_lines(headers, Tail(lines))

\* a variant that cuts a header line at its last ':'
process_response_headers_last_colon(lines) ==
    IF lines = <<>> THEN None
    ELSE LET idx == {i \in 1..Len(lines) : find(lines[i], Colon) # None}
             cut(line) == CHOOSE p \in 1..Len(line) :
                              /\ line[p] = ":"
                              /\ \A q \in (p + 1)..Len(line) : line[q] # ":"
             key(i) == SubSeq(lines[i], 1, cut(lines[i]) - 1)
             val(i) == trim(SubSeq(lines[i], cut(lines[i]) + 1, Len(lines[i])))
             last(k) == CHOOSE i \in idx :
                            key(i) = k /\ \A j \in idx : key(j) = k => j <= i
         IN  Some([k \in {key(i) : i \in idx} |-> val(last(k))])

process_response_headers(lines) ==
    IF lines = <<>> THEN None
    ELSE Some(insert_header_lines(EmptyMap, lines))

\* a variant that keeps everything after the code as the reason
process_head_lines_whole_reason(lines) ==
    LET head == lines[1]
        parts == split(head, Space)
    IN  IF Len(parts) < 2 THEN Panic
        ELSE LET status_code == StatusCode_from_code(parts[2])
                 reason == IF Len(parts) >= 3
                           THEN Some(From(head, Len(parts[1]) + Len(parts[2]) + 2))
                           ELSE None
                 response_headers == process_response_headers(Tail(lines))
             IN  IF status_code = Panic THEN Panic
                 ELSE [kind |-> "Ok",
                       status |-> [code |-> status_code, reason |-> reason],
                       headers |-> response_headers]

\* process_head_lines: parts.get(1).unwrap() panics on a status line without
\* a space
process_head_lines(lines) ==
    LET head == lines[1]
        parts == split(head, Space)
    IN  IF Len(parts) < 2 THEN Panic
        ELSE LET status_code == StatusCode_from_code(parts[2])
                 reason == IF Len(parts) >= 3 THEN Some(parts[3]) ELSE None
                 response_headers == process_response_headers(Tail(lines))
             IN  IF status_code = Panic THEN Panic
                 ELSE [kind |-> "Ok",
                       status |-> [code |-> status_code, reason |-> reason],
                       headers |-> response_headers]

new_response_from_complete_last_separator(resp) ==
    LET lines == split(resp, CRLFCRLF)
        heads_ == lines[1]
        body == lines[Len(lines)]
        head_lines == split(heads_, CRLF)
        processed == process_head_lines(head_lines)
    IN  IF processed = Panic THEN Panic
        ELSE [kind |-> "Response", status |-> processed.status, body |-> body,
              headers |-> processed.headers]

\* a variant that gives an empty body to a text without a blank line
new_response_from_complete_empty_body(resp) ==
    LET lines == splitn(2, resp, CRLFCRLF)
        heads_ == lines[1]
        head_lines == split(heads_, CRLF)
        processed == process_head_lines(head_lines)
        body == IF Len(lines) = 1 THEN <<>> ELSE lines[2]
    IN  IF processed = Panic THEN Panic
        ELSE [kind |-> "Response", status |-> processed.status, body |-> body,
              headers |-> processed.headers]

new_response_from_complete(resp) ==
    LET lines == splitn(2, resp, CRLFCRLF)
        heads_ == lines[1]
        head_lines == split(heads_, CRLF)
        processed == process_head_lines(head_lines)
        body == lines[Len(lines)]
    IN  IF processed = Panic THEN Panic
        ELSE [kind |-> "Response", status |-> processed.status, body |-> body,
              headers |-> processed.headers]

\* Response::get_status_code
get_status_code(r) == StatusCode_get_code(r.status.code)

----------------------------------------------------------------------------
(* src/http/mod.rs, the body-only parser of the String-returning get_http *)

parse_body_from_response(resp) ==
    LET lines == splitn(2, resp, CRLFCRLF)
    IN  lines[Len(lines)]

----------------------------------------------------------------------------
(* URL parsing as a state machine: one url string in, one URL value out. *)

UrlAlphabet == {"h", "8", ":", "/"}
Schemes == {<<>>, http \o SchemeSep, https \o SchemeSep, ftp \o SchemeSep}
UrlInputs == {p \o r : p \in Schemes, r \in Strs(UrlAlphabet, MaxRest)}

UrlIdle ==
    raw = <<>> /\ url = None /\ rest = None /\ full_domain = None /\ full_url = None
RespIdle == text = <<>> /\ response = None /\ heads = None /\ legacy_body = None
ExecIdle ==
    /\ pc = "idle"
    /\ pending = {}
    /\ order = <<>>
    /\ written = <<>>
    /\ trace = <<>>
    /\ received = None
    /\ result = None
    /\ entry = "none"
    /\ transport = "none"
    /\ buf = <<>>
ReqIdle == request = None /\ given = <<>> /\ added = <<>> /\ ExecIdle

InitUrl ==
    /\ raw \in UrlInputs
    /\ url = None
    /\ rest = None
    /\ full_domain = None
    /\ full_url = None
    /\ RespIdle
    /\ ReqIdle
    /\ feature_https = FALSE

\* URL::new(raw), keeping its locals
NewUrl ==
    /\ url = None
    /\ url' = Some(URL_new(raw))
    /\ rest' = Some(parse_proto(raw, None)[2])
    /\ full_domain' = Some(parse_full_domain(parse_proto(raw, None)[2], None)[1])
    /\ UNCHANGED <<raw, full_url, respVars, reqVars, execVars>>

\* url.get_full_url() on the URL made from raw
GetFullUrl ==
    /\ url # None
    /\ full_url = None
    /\ full_url' = Some(get_full_url(url[1]))
    /\ UNCHANGED <<raw, url, rest, full_domain, respVars, reqVars, execVars>>

NextUrl == NewUrl \/ GetFullUrl

SpecUrl == InitUrl /\ [][NextUrl]_vars

----------------------------------------------------------------------------
(* Response parsing as a state machine: one response text in, one Response *)
(* (or a panic) out.                                                       *)

StatusLines ==
    { <<"H", "T", "T", "P", "/", "1", ".", "1", " ", "2", "0", "0", " ", "O", "K">>,
      <<"H", "T", "T", "P", "/", "1", ".", "1", " ", "4", "0", "4", " ", "N", "o", "t",
        " ", "F", "o", "u", "n", "d">>,
      <<"H", "T", "T", "P", "/", "1", ".", "1", " ", "6", "0", "0">>,
      <<"H", "T", "T", "P", "/", "1", ".", "1", " ", "a", "b", "c">>,
      <<"H", "T", "T", "P", "/", "1", ".", "1">>,
      <<>> }

Pieces == {CRLF, <<"\r">>, <<"A">>, <<":">>}

RECURSIVE Flatten(_)
Flatten(ps) == IF ps = <<>> THEN <<>> ELSE ps[1] \o Flatten(Tail(ps))

\* status lines and what may follow them
BodyTexts ==
    {sl \o Flatten(ps) : sl \in StatusLines, ps \in Strs(Pieces, MaxPieces)}

\* the second token of a status line
CodeTokens ==
    { <<"1", "0", "0">>,
      <<"1", "9", "9">>,
      <<"2", "0", "0">>,
      <<"2", "9", "9">>,
      <<"3", "0", "0">>,
      <<"3", "9", "9">>,
      <<"4", "0", "0">>,
      <<"4", "9", "9">>,
      <<"5", "0", "0">>,
      <<"5", "9", "9">>,
      <<"6", "0", "0">>,
      <<"0", "9", "9">>,
      <<"9", "9">>,
      <<"1", "0", "0", "0">>,
      <<"+", "2", "0">>,
      <<"a", "b", "c">>,
      <<"\t", "2", "0", "0">>,
      <<"2", "0", "\t">>,
      <<ReplacementChar>>,
      <<"2", ReplacementChar>>,
      <<>> }

\* what follows the second token on a status line
ReasonTexts ==
    { <<>>,
      <<" ">>,
      <<" ", "O", "K">>,
      <<" ", "N", "o", "t", " ", "F", "o", "u", "n", "d">>,
      <<" ", " ", "O", "K">> }

StatusTexts ==
    {<<"H", " ">> \o tok \o reason \o tail :
        tok \in CodeTokens, reason \in ReasonTexts, tail \in {<<>>, CRLFCRLF \o <<"A">>}}

\* a status line and header lines
HeaderPieces == {CRLF, <<"k">>, <<":">>, <<" ">>}

HeaderTexts ==
    {<<"H", " ", "2", "0", "0", " ", "O", "K", "\r", "\n">> \o Flatten(ps) :
        ps \in Strs(HeaderPieces, MaxPieces)}

ResponseTexts == BodyTexts \cup StatusTexts \cup HeaderTexts

InitResp ==
    /\ text \in ResponseTexts
    /\ response = None
    /\ heads = None
    /\ legacy_body = None
    /\ UrlIdle
    /\ ReqIdle
    /\ feature_https = FALSE

\* new_response_from_complete(text), keeping its local `heads`
ParseResponse ==
    /\ response = None
    /\ response' = Some(new_response_from_complete(text))
    /\ heads' = Some(splitn(2, text, CRLFCRLF)[1])
    /\ UNCHANGED <<text, legacy_body, urlVars, reqVars, execVars>>

\* http/mod.rs: parse_body_from_response(text)
ParseBody ==
    /\ legacy_body = None
    /\ legacy_body' = Some(parse_body_from_response(text))
    /\ UNCHANGED <<text, response, heads, urlVars, reqVars, execVars>>

NextResp == ParseResponse \/ ParseBody

SpecResp == InitResp /\ [][NextResp]_vars

----------------------------------------------------------------------------
(* src/request.rs *)

UserAgentKey == <<"u", "s", "e", "r", "-", "a", "g", "e", "n", "t">>
UserAgentValue == <<"m", "i", "n", "i", "-", "g", "e", "t", "/", "0", ".", "1", ".", "0">>
AcceptKey == <<"a", "c", "c", "e", "p", "t">>
AcceptValue == <<"*", "/", "*">>
HostKey == <<"h", "o", "s", "t">>
ConnectionKey == <<"c", "o", "n", "n", "e", "c", "t", "i", "o", "n">>
ConnectionValue == <<"c", "l", "o", "s", "e">>

\* RequestType::value
RequestType_value(request_type) ==
    CASE request_type = "GET" -> <<"G", "E", "T">>
      [] request_type = "HEAD" -> <<"H", "E", "A", "D">>
      [] request_type = "POST" -> <<"P", "O", "S", "T">>
      [] request_type = "PUT" -> <<"P", "U", "T">>
      [] request_type = "DELETE" -> <<"D", "E", "L", "E", "T", "E">>
      [] request_type = "OPTIONS" -> <<"O", "P", "T", "I", "O", "N", "S">>
      [] request_type = "CUSTOM" -> <<"C", "U", "S", "T", "O", "M">>

get_default_headers(u) ==
    insert(insert(insert(insert(EmptyMap,
        UserAgentKey, UserAgentValue),
        AcceptKey, AcceptValue),
        HostKey, u.host),
        ConnectionKey, ConnectionValue)

\* the inserts of a sequence of (key, value) pairs, in order
RECURSIVE insert_all(_, _)
insert_all(m, pairs) ==
    IF pairs = <<>> THEN m
    ELSE insert_all(insert(m, pairs[1][1], pairs[1][2]), Tail(pairs))

\* process_headers: the pairs of the Vec collected into a map
process_headers(headers) ==
    IF headers = None THEN None ELSE Some(insert_all(EmptyMap, headers[1]))

\* the map m with every entry of the map extra inserted
RECURSIVE insert_map(_, _)
insert_map(m, extra) ==
    IF DOMAIN extra = {} THEN m
    ELSE LET k == CHOOSE x \in DOMAIN extra : TRUE
         IN  insert_map(insert(m, k, extra[k]),
                        [x \in (DOMAIN extra) \ {k} |-> extra[x]])

merge_addnl_headers(req, addnl_headers) ==
    IF req.headers # None
    THEN IF addnl_headers # None
         THEN [req EXCEPT !.headers = Some(insert_map(req.headers[1], addnl_headers[1]))]
         ELSE req
    ELSE [req EXCEPT !.headers = addnl_headers]

Request_new(u, headers, body) ==
    LET parsed == URL_new(u)
        req == [url |-> parsed, request_type |-> "GET",
                headers |-> Some(get_default_headers(parsed)), body |-> body]
    IN  merge_addnl_headers(req, process_headers(headers))

default_get_request(u) == Request_new(u, None, None)

add_header_keeps_existing(req, key, value) ==
    IF req.headers # None
    THEN IF key \in DOMAIN req.headers[1] THEN req
         ELSE [req EXCEPT !.headers = Some(insert(req.headers[1], key, value))]
    ELSE [req EXCEPT !.headers = Some(insert(EmptyMap, key, value))]

add_header(req, key, value) ==
    IF req.headers # None
    THEN [req EXCEPT !.headers = Some(insert(req.headers[1], key, value))]
    ELSE [req EXCEPT !.headers = Some(insert(EmptyMap, key, value))]

get_request_type(req) == RequestType_value(req.request_type)

is_https(req) == req.url.protocol = https

----------------------------------------------------------------------------
(* Building a request: Request::new, then add_header and body assignment *)

RequestUrls ==
    { <<"h", "t", "t", "p", ":", "/", "/", "h", "/", "8">>,
      <<"h", "t", "t", "p", "s", ":", "/", "/", "h", ":", "8">>,
      <<"f", "t", "p", ":", "/", "/", "h">> }

HeaderKeys == {AcceptKey, <<"A", "c", "c", "e", "p", "t">>, <<"x">>}
HeaderValues == {<<"1">>, <<"2">>}

HeaderVecs ==
    { None,
      Some(<< <<(<<"x">>), (<<"1">>)>> >>),
      Some(<< <<AcceptKey, (<<"1">>)>>, <<AcceptKey, (<<"2">>)>> >>) }

Bodies == {None, Some(<<"b">>)}

InitReq ==
    /\ request = None
    /\ given = <<>>
    /\ added = <<>>
    /\ ExecIdle
    /\ feature_https \in BOOLEAN
    /\ UrlIdle
    /\ RespIdle

\* Request::new(u, headers, body)
NewRequest ==
    /\ request = None
    /\ pc = "idle"
    /\ \E u \in RequestUrls, h \in HeaderVecs, b \in Bodies :
           /\ request' = Some(Request_new(u, h, b))
           /\ given' = IF h = None THEN <<>> ELSE h[1]
    /\ UNCHANGED <<added, urlVars, respVars, execVars>>

\* request.add_header(key, value)
AddHeader ==
    /\ request # None
    /\ pc = "idle"
    /\ Len(added) < MaxAdds
    /\ \E key \in HeaderKeys, value \in HeaderValues :
           /\ request' = Some(add_header(request[1], key, value))
           /\ added' = Append(added, <<key, value>>)
    /\ UNCHANGED <<given, urlVars, respVars, execVars>>

\* request.body = b
SetBody ==
    /\ request # None
    /\ pc = "idle"
    /\ \E b \in Bodies :
           /\ b # request[1].body
           /\ request' = Some([request[1] EXCEPT !.body = b])
    /\ UNCHANGED <<given, added, urlVars, respVars, execVars>>

NextReq == NewRequest \/ AddHeader \/ SetBody

SpecReq == InitReq /\ [][NextReq]_vars

----------------------------------------------------------------------------
(* src/http.rs: execute, one stream operation at a time *)

HttpVersionLine == <<" ", "H", "T", "T", "P", "/", "1", ".", "1", "\r", "\n">>
ColonSpace == <<":", " ">>

\* a byte that is no valid UTF-8
BadByte == "0xFF"

\* String::from_utf8_lossy: every invalid byte becomes U+FFFD
from_utf8_lossy(bytes) ==
    [i \in 1..Len(bytes) |-> IF bytes[i] = BadByte THEN ReplacementChar ELSE bytes[i]]

\* the bytes write_http_method formats: "{method} {path} HTTP/1.1\r\n"
request_line(req) == get_request_type(req) \o Space \o req.url.path \o HttpVersionLine

\* the bytes write_std_headers formats for one entry: "{k}: {v}\r\n"
header_line(k, v) == k \o ColonSpace \o v \o CRLF

body_bytes_with_terminator(req) == req.body[1] \o CRLF

\* the bytes write_request_body formats: "{body}"
body_bytes(req) == req.body[1]

Min(a, b) == IF a <= b THEN a ELSE b

StreamWrite_ignores_error(data, next) ==
    \/ /\ written' = written \o data
       /\ trace' = Append(trace, [op |-> "write", ok |-> TRUE])
       /\ pc' = next
       /\ result' = result
    \/ /\ data # <<>>
       /\ \E n \in 0..Min(MaxPartial, Len(data) - 1) :
              written' = written \o Upto(data, n)
       /\ trace' = Append(trace, [op |-> "write", ok |-> FALSE])
       /\ pc' = next
       /\ result' = result

\* One write_fmt / write_all on the stream. It either puts all of data on the
\* stream, or fails after a proper prefix of it: the error then goes up
\* through every `?` of send_request to the unwrap() of execute, which
\* panics.
StreamWrite(data, next) ==
    \/ /\ written' = written \o data
       /\ trace' = Append(trace, [op |-> "write", ok |-> TRUE])
       /\ pc' = next
       /\ result' = result
    \/ /\ data # <<>>
       /\ \E n \in 0..Min(MaxPartial, Len(data) - 1) :
              written' = written \o Upto(data, n)
       /\ trace' = Append(trace, [op |-> "write", ok |-> FALSE])
       /\ pc' = "done"
       /\ result' = Some(Panic)

\* what the peer may send before it closes the stream
Incoming ==
    { <<"H", "T", "T", "P", "/", "1", ".", "1", " ", "2", "0", "0", " ", "O", "K",
        "\r", "\n", "\r", "\n", "A">>,
      <<"H", "T", "T", "P", "/", "1", ".", "1", " ", "4", "0", "4", " ", "N", "o", "t",
        " ", "F", "o", "u", "n", "d", "\r", "\n", "x", ":", " ", "1", "\r", "\n",
        "\r", "\n">>,
      <<"H", " ", "2", "0", BadByte>>,
      <<"H", " ", BadByte>>,
      <<>> }

\* a variant that takes the https transport whatever the protocol
select_transport_ignores_protocol(feature, protocol) ==
    IF feature THEN "tls" ELSE "plain"

\* The branch of Request::execute and of lib.rs get: the https transport only
\* in a build with the "https" feature, and then for the protocol "https"
select_transport(feature, protocol) ==
    IF feature /\ protocol = https THEN "tls" ELSE "plain"

\* The stream is being obtained. request_http_get: TcpStream::connect(..)
\* .unwrap(), which panics when no connection is made. request_https_get:
\* acquire_ssl_stream, where the connector or the handshake may fail with
\* HttpsSslError, returned by execute and unwrapped (a panic) by get_https,
\* and where TcpStream::connect(..).unwrap() panics as well.
Connect(how, from) ==
    /\ transport' = how
    /\ entry' = from
    /\ \/ /\ pc' = "write_http_method"
          /\ pending' = DOMAIN request'[1].headers[1]
          /\ result' = result
       \/ /\ pc' = "done"
          /\ pending' = pending
          /\ result' = Some(Panic)
       \/ /\ how = "tls"
          /\ pc' = "done"
          /\ pending' = pending
          /\ result' = IF from = "get" THEN Some(Panic)
                       ELSE Some([kind |-> "Err", val |-> [kind |-> "HttpsSslError"]])

\* request.execute() -> request_http_get or request_https_get
\* -> execute(stream, request)
Execute ==
    /\ request # None
    /\ pc = "idle"
    /\ request' = request
    /\ Connect(select_transport(feature_https, request[1].url.protocol), "execute")
    /\ UNCHANGED <<given, added, order, written, trace, received, urlVars, respVars,
                   feature_https, buf>>

\* get(u): the url made, then get_https or get_http by the same branch; both
\* build the default GET request, execute it and unwrap its result
Get ==
    /\ request = None
    /\ pc = "idle"
    /\ \E u \in RequestUrls :
           /\ request' = Some(default_get_request(u))
           /\ Connect(select_transport(feature_https, URL_new(u).protocol), "get")
    /\ UNCHANGED <<given, added, order, written, trace, received, urlVars, respVars,
                   feature_https, buf>>

WriteHttpMethod ==
    /\ pc = "write_http_method"
    /\ StreamWrite(request_line(request[1]), "write_std_headers")
    /\ UNCHANGED <<pending, order, received, reqVars, urlVars, respVars,
                   feature_https, entry, transport, buf>>

\* one turn of the loop of write_std_headers; the map yields its entries in
\* an order of its own
WriteHeader ==
    /\ pc = "write_std_headers"
    /\ \E k \in pending :
           /\ StreamWrite(header_line(k, request[1].headers[1][k]), "write_std_headers")
           /\ pending' = pending \ {k}
           /\ order' = Append(order, k)
    /\ UNCHANGED <<received, reqVars, urlVars, respVars,
                   feature_https, entry, transport, buf>>

\* the end of write_std_headers, and the test of send_request for a body
WriteBlankLine ==
    /\ pc = "write_std_headers"
    /\ pending = {}
    /\ StreamWrite(CRLF, IF request[1].body # None THEN "write_request_body"
                         ELSE "receive_response")
    /\ UNCHANGED <<pending, order, received, reqVars, urlVars, respVars,
                   feature_https, entry, transport, buf>>

WriteRequestBody ==
    /\ pc = "write_request_body"
    /\ StreamWrite(body_bytes(request[1]), "receive_response")
    /\ UNCHANGED <<pending, order, received, reqVars, urlVars, respVars,
                   feature_https, entry, transport, buf>>

\* a variant of a read that takes the first bytes for the whole response
ReadChunk_returns_early ==
    /\ pc = "receive_response"
    /\ \E bytes \in Incoming :
           /\ Len(buf) < Len(bytes)
           /\ Upto(bytes, Len(buf)) = buf
           /\ buf' = Upto(bytes, Min(Len(bytes), Len(buf) + MaxChunk))
    /\ trace' = Append(trace, [op |-> "read", ok |-> TRUE])
    /\ received' = Some(buf')
    /\ pc' = "parse_body_from_response"
    /\ UNCHANGED <<pending, order, written, result, reqVars, urlVars, respVars,
                   feature_https, entry, transport>>

\* read_response: one read of the loop of read_to_end that returns bytes,
\* which are appended to the Vec
ReadChunk ==
    /\ pc = "receive_response"
    /\ \E bytes \in Incoming :
           /\ Len(buf) < Len(bytes)
           /\ Upto(bytes, Len(buf)) = buf
           /\ buf' = Upto(bytes, Min(Len(bytes), Len(buf) + MaxChunk))
    /\ trace' = Append(trace, [op |-> "read", ok |-> TRUE])
    /\ UNCHANGED <<pc, pending, order, written, received, result, reqVars, urlVars,
                   respVars, feature_https, entry, transport>>

\* read_response: the read that returns 0 bytes, the peer having sent its
\* message and closed: read_to_end returns, and the Vec is the result
ReadEof ==
    /\ pc = "receive_response"
    /\ buf \in Incoming
    /\ trace' = Append(trace, [op |-> "read", ok |-> TRUE])
    /\ received' = Some(buf)
    /\ pc' = "parse_body_from_response"
    /\ UNCHANGED <<pending, order, written, result, buf, reqVars, urlVars, respVars,
                   feature_https, entry, transport>>

\* read_response: a read that fails; the `?` returns the error, and the
\* unwrap() of receive_response turns it into a panic
ReadError ==
    /\ pc = "receive_response"
    /\ trace' = Append(trace, [op |-> "read", ok |-> FALSE])
    /\ result' = Some(Panic)
    /\ pc' = "done"
    /\ UNCHANGED <<pending, order, written, received, buf, reqVars, urlVars, respVars,
                   feature_https, entry, transport>>

\* receive_response after read_response: the lossy decoding and the parsing
\* of what was read; get_http and get_https keep the body alone
ReceiveResponse ==
    /\ pc = "parse_body_from_response"
    /\ LET parsed == new_response_from_complete(from_utf8_lossy(received[1]))
       IN  result' = IF parsed = Panic THEN Some(Panic)
                     ELSE IF entry = "get"
                     THEN Some([kind |-> "Body", val |-> parsed.body])
                     ELSE Some([kind |-> "Ok", val |-> parsed])
    /\ pc' = "done"
    /\ UNCHANGED <<pending, order, written, trace, received, buf, reqVars, urlVars,
                   respVars, feature_https, entry, transport>>

----------------------------------------------------------------------------
(* src/http/mod.rs: the String-returning get_http, which works from a URL *)
(* alone, one stream operation at a time                                   *)

GetSpace == <<"G", "E", "T", " ">>

\* the bytes of write_http_method: "GET {path} HTTP/1.1\r\n"
legacy_request_line(u) == GetSpace \o u.path \o HttpVersionLine

\* the four header lines of write_std_headers, then the blank line
legacy_header_lines(u) ==
    << UserAgentKey \o ColonSpace \o UserAgentValue \o CRLF,
       AcceptKey \o ColonSpace \o AcceptValue \o CRLF,
       HostKey \o ColonSpace \o u.host \o CRLF,
       ConnectionKey \o ColonSpace \o ConnectionValue \o CRLF,
       CRLF >>

\* get_http(u): URL::new, then TcpStream::connect(..).unwrap(), which panics when
\* no connection is made
LegacyGetHttp ==
    /\ request = None
    /\ pc = "idle"
    /\ \E u \in RequestUrls :
           /\ raw' = u
           /\ url' = Some(URL_new(u))
    /\ entry' = "get_http"
    /\ transport' = "plain"
    /\ \/ /\ pc' = "legacy_write_http_method"
          /\ result' = result
       \/ /\ pc' = "done"
          /\ result' = Some(Panic)
    /\ UNCHANGED <<rest, full_domain, full_url, pending, order, written, trace, received,
                   reqVars, respVars, feature_https, buf>>

\* write_http_method(stream, url).unwrap(): a write_fmt, whose error panics
LegacyWriteHttpMethod ==
    /\ pc = "legacy_write_http_method"
    /\ StreamWrite(legacy_request_line(url[1]), "legacy_write_std_headers")
    /\ UNCHANGED <<pending, order, received, reqVars, urlVars, respVars,
                   feature_https, entry, transport, buf>>

\* One stream.write(..)? of write_std_headers: the write may take only a
\* prefix of the line and still return Ok, which the code does not look at;
\* its error goes up to the unwrap() of get_http, which panics.
LegacyWriteHeader ==
    /\ pc = "legacy_write_std_headers"
    /\ LET lines == legacy_header_lines(url[1])
           line == lines[Len(order) + 1]
       IN  /\ \/ /\ \E n \in {Len(line)} \cup 0..Min(MaxPartial, Len(line)) :
                        written' = written \o Upto(line, n)
                 /\ trace' = Append(trace, [op |-> "write", ok |-> TRUE])
                 /\ pc' = IF Len(order) + 1 = Len(lines) THEN "legacy_receive_response"
                          ELSE "legacy_write_std_headers"
                 /\ result' = result
              \/ /\ written' = written
                 /\ trace' = Append(trace, [op |-> "write", ok |-> FALSE])
                 /\ pc' = "done"
                 /\ result' = Some(Panic)
           /\ order' = Append(order, line)
    /\ UNCHANGED <<pending, received, reqVars, urlVars, respVars,
                   feature_https, entry, transport, buf>>

\* receive_response: read_to_end, whose error the unwrap() turns into a
\* panic, then the lossy decoding and the body of what was read
LegacyReceiveResponse ==
    /\ pc = "legacy_receive_response"
    /\ \/ \E bytes \in Incoming :
              /\ received' = Some(bytes)
              /\ trace' = Append(trace, [op |-> "read", ok |-> TRUE])
              /\ result' = Some([kind |-> "Body",
                                 val |-> parse_body_from_response(from_utf8_lossy(bytes))])
       \/ /\ received' = None
          /\ trace' = Append(trace, [op |-> "read", ok |-> FALSE])
          /\ result' = Some(Panic)
    /\ pc' = "done"
    /\ UNCHANGED <<pending, order, written, reqVars, urlVars, respVars,
                   feature_https, entry, transport, buf>>

Init == InitReq

Next ==
    \/ NewRequest
    \/ Execute
    \/ Get
    \/ WriteHttpMethod
    \/ WriteHeader
    \/ WriteBlankLine
    \/ WriteRequestBody
    \/ ReadChunk
    \/ ReadEof
    \/ ReadError
    \/ ReceiveResponse
    \/ LegacyGetHttp
    \/ LegacyWriteHttpMethod
    \/ LegacyWriteHeader
    \/ LegacyReceiveResponse

Spec == Init /\ [][Next]_vars

----------------------------------------------------------------------------
(* Properties of URL parsing *)

Contains(s, pat) == \E i \in 0..Len(s) : OccursAt(s, pat, i)
FirstAt(s, pat, i) ==
    /\ OccursAt(s, pat, i)
    /\ \A j \in 0..Len(s) : j < i => ~OccursAt(s, pat, j)

\* C1: the protocol is the exact text before the first "://" of the input;
\* an input without "://" gets protocol "http" and is, whole, the remainder
\* from which the domain and the path are taken.
C1_ProtocolBeforeFirstSep ==
    url # None =>
        /\ \A i \in 0..Len(raw) :
               FirstAt(raw, SchemeSep, i) => url[1].protocol = Upto(raw, i)
        /\ ~Contains(raw, SchemeSep) =>
               /\ url[1].protocol = http
               /\ rest = Some(raw)
               /\ IF Contains(raw, Slash)
                  THEN full_domain[1] \o url[1].path = raw
                  ELSE full_domain[1] = raw

C1_Witness ==
    /\ url # None
    /\ Contains(raw, SchemeSep)
    /\ url[1].protocol = ftp
    /\ url[1].host = <<"h">>

\* C2: the remainder is the whole input after the FIRST "://"; a later "://"
\* stays in the path and nothing after it is dropped.
C2_RemainderIsAllAfterFirstSep ==
    url # None =>
        \A i \in 0..Len(raw) :
            FirstAt(raw, SchemeSep, i) =>
                LET after == From(raw, i + Len(SchemeSep))
                IN  /\ rest = Some(after)
                    /\ \A k \in 0..Len(after) :
                           FirstAt(after, Slash, k) => url[1].path = From(after, k)

\* C3 as claimed: without ':' in the full domain the port is "80" for http,
\* "443" for https and empty for every other protocol.
C3_AsClaimed ==
    (url # None /\ ~Contains(full_domain[1], Colon)) =>
        url[1].port = IF url[1].protocol = http THEN Port80
                      ELSE IF url[1].protocol = https THEN Port443
                      ELSE <<>>

\* C3 (amended): without ':' in the full domain the port is "443" for https
\* and "80" for http and for every other protocol.
C3_DefaultPort ==
    (url # None /\ ~Contains(full_domain[1], Colon)) =>
        url[1].port = IF url[1].protocol = https THEN Port443 ELSE Port80

C3_Witness ==
    /\ url # None
    /\ ~Contains(full_domain[1], Colon)
    /\ url[1].protocol = ftp
    /\ url[1].host = <<"h">>
    /\ url[1].port = Port80

\* C4: the remainder is cut at its first '/' into full domain and path (the
\* path keeps the '/'; without '/' the path is "/"), and host and port are
\* cut at the first ':' of the full domain alone.
C4_DomainPathHostPort ==
    url # None =>
        LET r == rest[1]
            fd == full_domain[1]
        IN  /\ \A i \in 0..Len(r) :
                   FirstAt(r, Slash, i) =>
                       fd = Upto(r, i) /\ url[1].path = From(r, i)
            /\ ~Contains(r, Slash) => fd = r /\ url[1].path = Slash
            /\ \A i \in 0..Len(fd) :
                   FirstAt(fd, Colon, i) =>
                       url[1].host = Upto(fd, i) /\ url[1].port = From(fd, i + 1)
            /\ ~Contains(fd, Colon) => url[1].host = fd

C4_Witness ==
    /\ url # None
    /\ url[1].host = <<"h">>
    /\ url[1].port = <<"8">>
    /\ url[1].path = <<"/", ":", "8">>

\* C5: the host of a parsed URL holds no ':' and its path is non-empty and
\* starts with '/', whatever the input.
C5_HostAndPathShape ==
    url # None =>
        /\ ~Contains(url[1].host, Colon)
        /\ url[1].path # <<>>
        /\ url[1].path[1] = "/"

C5_Witness ==
    /\ url # None
    /\ raw = <<>>
    /\ url[1].host = <<>>
    /\ url[1].path = Slash

----------------------------------------------------------------------------
(* Properties of response parsing *)

\* C10: for a response text that contains "\r\n\r\n", the body of the parsed
\* Response is exactly the text after the FIRST "\r\n\r\n", later ones
\* included, and the head block is exactly the text before it; the body-only
\* parser returns the same body.
C10_BodyAfterFirstSeparator ==
    \A i \in 0..Len(text) :
        FirstAt(text, CRLFCRLF, i) =>
            /\ (response # None /\ response[1].kind = "Response") =>
                   /\ response[1].body = From(text, i + Len(CRLFCRLF))
                   /\ heads = Some(Upto(text, i))
            /\ legacy_body # None => legacy_body[1] = From(text, i + Len(CRLFCRLF))

C10_Witness ==
    /\ response # None
    /\ response[1].kind = "Response"
    /\ legacy_body # None
    /\ response[1].body = <<"A", "\r", "\n", "\r", "\n", "A">>
    /\ heads = Some(<<"H", "T", "T", "P", "/", "1", ".", "1", " ", "2", "0", "0", " ", "O", "K">>)

----------------------------------------------------------------------------
(* Properties of the request's header map *)

DefaultKeys == {UserAgentKey, AcceptKey, HostKey, ConnectionKey}

DefaultValue(key) ==
    CASE key = UserAgentKey -> <<"m", "i", "n", "i", "-", "g", "e", "t", "/", "0", ".", "1", ".", "0">>
      [] key = AcceptKey -> <<"*", "/", "*">>
      [] key = HostKey -> request[1].url.host
      [] key = ConnectionKey -> <<"c", "l", "o", "s", "e">>

\* every pair the request was given, at construction and by add_header
Given == given \o added
GivenAt(key) == {i \in 1..Len(Given) : Given[i][1] = key}
LastGivenAt(key) == CHOOSE i \in GivenAt(key) : \A j \in GivenAt(key) : j <= i

\* C6: the header map holds, for each key, exactly the value of the last
\* add_header call with that exact key, else the default value of a default
\* key, and no entry for any other key; an add_header on a key the map
\* holds keeps the size of the map and every other entry, and no default key
\* ever leaves the map.
C6_HeaderMap ==
    /\ [] (request # None =>
            LET m == request[1].headers[1]
            IN  /\ request[1].headers # None
                /\ DOMAIN m = DefaultKeys \cup {Given[i][1] : i \in 1..Len(Given)}
                /\ \A key \in DOMAIN m :
                       m[key] = IF GivenAt(key) # {} THEN Given[LastGivenAt(key)][2]
                                ELSE DefaultValue(key))
    /\ [][(request # None /\ added' # added) =>
            LET m == request[1].headers[1]
                n == request'[1].headers[1]
                key == added'[Len(added')][1]
            IN  /\ DefaultKeys \subseteq DOMAIN n
                /\ \A k \in DOMAIN m : k # key => (k \in DOMAIN n /\ n[k] = m[k])
                /\ key \in DOMAIN m => DOMAIN n = DOMAIN m]_vars

C6_Witness ==
    /\ request # None
    /\ Len(added) = 2
    /\ added[1] = <<AcceptKey, <<"1">> >>
    /\ added[2] = <<AcceptKey, <<"2">> >>
    /\ request[1].headers[1][AcceptKey] = <<"2">>
    /\ Cardinality(DOMAIN request[1].headers[1]) = 4

----------------------------------------------------------------------------
(* Properties of execute *)

Failed == \E i \in 1..Len(trace) : ~trace[i].ok
\* send_request has returned Ok: the response is awaited or was read
Sent ==
    /\ request # None
    /\ \/ pc = "receive_response"
       \/ \E i \in 1..Len(trace) : trace[i].op = "read"
    /\ \A i \in 1..Len(trace) : trace[i].op = "write" => trace[i].ok

IsPrefix(s, t) == Len(s) <= Len(t) /\ SubSeq(t, 1, Len(s)) = s

\* C7: when every write succeeds, the stream holds, in this order and nothing
\* else: "{METHOD} {path} HTTP/1.1\r\n", one "{key}: {value}\r\n" for each
\* entry of the header map exactly once, "\r\n", and then the body bytes if
\* and only if the request has a body, nothing after them.
C7_BytesOnTheStream ==
    Sent =>
        LET req == request[1]
            m == req.headers[1]
        IN  /\ Len(order) = Cardinality(DOMAIN m)
            /\ {order[i] : i \in 1..Len(order)} = DOMAIN m
            /\ written =
                   <<"G", "E", "T", " ">> \o req.url.path
                       \o <<" ", "H", "T", "T", "P", "/", "1", ".", "1", "\r", "\n">>
                       \o Flatten([i \in 1..Len(order) |->
                              order[i] \o <<":", " ">> \o m[order[i]] \o <<"\r", "\n">>])
                       \o <<"\r", "\n">>
                       \o (IF req.body = None THEN <<>> ELSE req.body[1])

C7_Witness ==
    /\ Sent
    /\ request[1].body = Some(<<"b">>)
    /\ <<"x">> \in DOMAIN request[1].headers[1]
    /\ Len(order) = 5
    /\ order[1] = ConnectionKey
    /\ written[Len(written)] = "b"

\* C8: a failed stream operation is the last one attempted on the stream (no
\* later write, no retry), and the bytes on the stream are never taken back.
C8_FailFast ==
    /\ [] (\A i \in 1..Len(trace) : ~trace[i].ok => i = Len(trace))
    /\ [][IsPrefix(written, written')]_vars

C8_Witness ==
    /\ Len(trace) = 3
    /\ trace[1].ok
    /\ trace[2].ok
    /\ trace[3] = [op |-> "write", ok |-> FALSE]
    /\ pc = "done"
    /\ Len(written) > Len(request_line(request[1]))

\* C9: when a write or the read fails, execute returns an error of kind
\* NetworkError to its caller (no panic, no Response), and no read follows a
\* failed write.
C9_StreamFailureIsNetworkError ==
    /\ (request # None /\ pc = "done" /\ Failed) =>
           result = Some([kind |-> "Err", val |-> [kind |-> "NetworkError"]])
    /\ \A i \in 1..Len(trace) : \A j \in 1..Len(trace) :
           (trace[i].op = "write" /\ ~trace[i].ok /\ i < j) => trace[j].op # "read"

----------------------------------------------------------------------------
(* Properties of the status line and of the header lines *)

\* the first line of a text: what precedes its first "\r\n"
StatusLineOf(txt) ==
    IF Contains(txt, CRLF)
    THEN Upto(txt, CHOOSE i \in 0..Len(txt) : FirstAt(txt, CRLF, i))
    ELSE txt

\* the n-th (from 1) of the tokens that single spaces cut a line into
SpacesOf(line) == {i \in 1..Len(line) : line[i] = " "}
TokenCount(line) == Cardinality(SpacesOf(line)) + 1
CutOf(line, n) ==
    IF n = 0 THEN 0
    ELSE IF n = TokenCount(line) THEN Len(line) + 1
    ELSE CHOOSE p \in SpacesOf(line) :
             Cardinality({i \in SpacesOf(line) : i < p}) = n - 1
TokenOf(line, n) == SubSeq(line, CutOf(line, n - 1) + 1, CutOf(line, n) - 1)

\* a string without its leading and trailing whitespace
Trimmed(str) ==
    LET keep == {i \in 1..Len(str) : str[i] \notin Whitespace}
    IN  IF keep = {} THEN <<>>
        ELSE SubSeq(str, CHOOSE i \in keep : \A j \in keep : i <= j,
                         CHOOSE i \in keep : \A j \in keep : j <= i)

AllDigits(str) == \A i \in 1..Len(str) : str[i] \in Digits
ThreeDigitValue(str) ==
    100 * DigitValue(str[1]) + 10 * DigitValue(str[2]) + DigitValue(str[3])

CategoryOf(n) ==
    CASE n \in 100..199 -> "Informational"
      [] n \in 200..299 -> "Success"
      [] n \in 300..399 -> "Redirection"
      [] n \in 400..499 -> "ClientError"
      [] n \in 500..599 -> "ServerError"
      [] OTHER -> "Failure"

RangedCategories ==
    {"Informational", "Success", "Redirection", "ClientError", "ServerError"}

Parsed == response # None
IsResponse == response # None /\ response[1].kind = "Response"

\* C11: a code token that is not exactly 3 characters long once trimmed gives
\* the status Failure; a token of 3 digits is classified by its value n,
\* 100-199 Informational(n), 200-299 Success(n), 300-399 Redirection(n),
\* 400-499 ClientError(n), 500-599 ServerError(n), anything else Failure; and
\* the code of the Response is Some(n) for the five ranged categories and
\* None for Failure.
C11_StatusClassification ==
    (Parsed /\ TokenCount(StatusLineOf(text)) >= 2) =>
        LET tok == Trimmed(TokenOf(StatusLineOf(text), 2))
        IN  /\ Len(tok) # 3 =>
                   /\ IsResponse
                   /\ response[1].status.code = [kind |-> "Failure"]
                   /\ get_status_code(response[1]) = None
            /\ (Len(tok) = 3 /\ AllDigits(tok)) =>
                   LET n == ThreeDigitValue(tok)
                   IN  /\ IsResponse
                       /\ response[1].status.code.kind = CategoryOf(n)
                       /\ IF CategoryOf(n) \in RangedCategories
                          THEN /\ response[1].status.code.code = n
                               /\ get_status_code(response[1]) = Some(n)
                          ELSE get_status_code(response[1]) = None

\* C12: parsing returns a Response for every text, the empty one, one whose
\* status line has no space and one whose 3-character code is no number
\* included, and a malformed status line gives the status Failure.
C12_ParsingIsTotal ==
    Parsed =>
        /\ IsResponse
        /\ LET line == StatusLineOf(text)
               wellFormed ==
                   /\ TokenCount(line) >= 2
                   /\ Len(Trimmed(TokenOf(line, 2))) = 3
                   /\ AllDigits(Trimmed(TokenOf(line, 2)))
                   /\ CategoryOf(ThreeDigitValue(Trimmed(TokenOf(line, 2))))
                          \in RangedCategories
           IN  ~wellFormed => response[1].status.code = [kind |-> "Failure"]

\* the head block of a text: what precedes its first "\r\n\r\n"
HeadBlockOf(txt) ==
    IF Contains(txt, CRLFCRLF)
    THEN Upto(txt, CHOOSE i \in 0..Len(txt) : FirstAt(txt, CRLFCRLF, i))
    ELSE txt

\* the lines of the head block after the status line
HeaderLinesOf(txt) == Tail(split(HeadBlockOf(txt), CRLF))

HasColon(line) == \E i \in 1..Len(line) : line[i] = ":"
FirstColon(line) ==
    CHOOSE i \in 1..Len(line) :
        line[i] = ":" /\ \A j \in 1..(i - 1) : line[j] # ":"
KeyOf(line) == SubSeq(line, 1, FirstColon(line) - 1)
ValueOf(line) == Trimmed(SubSeq(line, FirstColon(line) + 1, Len(line)))

\* C13: the headers of a Response are exactly what the head-block lines after
\* the status line give: each line with a ':' gives the key before its first
\* ':' (as written, not trimmed) and the value after that ':' trimmed of
\* whitespace (the last line of a key is the one kept), and a line without
\* ':' gives no header and no error.
C13_HeaderLines ==
    IsResponse =>
        LET lines == HeaderLinesOf(text)
            colon == {i \in 1..Len(lines) : HasColon(lines[i])}
            headers == response[1].headers
        IN  IF lines = <<>> THEN headers = None
            ELSE /\ headers # None
                 /\ DOMAIN headers[1] = {KeyOf(lines[i]) : i \in colon}
                 /\ \A i \in colon :
                        (\A j \in colon : KeyOf(lines[j]) = KeyOf(lines[i]) => j <= i)
                            => headers[1][KeyOf(lines[i])] = ValueOf(lines[i])

\* a key with a space kept, a value with a later ':' kept and its blanks
\* trimmed, beside a line without ':'
C13_Witness ==
    /\ IsResponse
    /\ \E i, j \in 1..Len(HeaderLinesOf(text)) :
           /\ HeaderLinesOf(text)[i] = <<"k", " ", ":", " ", ":">>
           /\ ~HasColon(HeaderLinesOf(text)[j])
    /\ response[1].headers = Some([k \in {<<"k", " ">>} |-> <<":">>])

\* C17: the reason of a parsed status is the third space-separated token of
\* the status line alone, later tokens dropped, and is absent when the line
\* has fewer than three tokens.
C17_ReasonIsThirdToken ==
    IsResponse =>
        LET line == StatusLineOf(text)
        IN  response[1].status.reason =
                IF TokenCount(line) >= 3 THEN Some(TokenOf(line, 3)) ELSE None

C17_Witness ==
    /\ IsResponse
    /\ StatusLineOf(text) =
           <<"H", "T", "T", "P", "/", "1", ".", "1", " ", "4", "0", "4",
             " ", "N", "o", "t", " ", "F", "o", "u", "n", "d">>
    /\ response[1].status.reason = Some(<<"N", "o", "t">>)

\* C18: a text without "\r\n\r\n" whose status line parses gives a Response
\* whose body is the whole text, status line and header lines included; the
\* same text is the head block the status and the headers are read from, and
\* the body-only parser returns the whole text too.
C18_NoBlankLineBodyIsText ==
    ~Contains(text, CRLFCRLF) =>
        /\ IsResponse =>
               /\ response[1].body = text
               /\ heads = Some(text)
               /\ response[1].headers =
                      process_response_headers(Tail(split(text, CRLF)))
        /\ legacy_body # None => legacy_body[1] = text

C18_Witness ==
    /\ IsResponse
    /\ ~Contains(text, CRLFCRLF)
    /\ Contains(text, CRLF)
    /\ response[1].headers # None
    /\ DOMAIN response[1].headers[1] # {}
    /\ response[1].body = text
    /\ response[1].body # <<>>
    /\ legacy_body = Some(text)

----------------------------------------------------------------------------
(* Properties of URL::get_full_url *)

\* C15: get_full_url() of the URL created from a string returns that string,
\* the complete url that was used to create the URL.
C15_FullUrlIsTheInput ==
    full_url # None => full_url[1] = raw

----------------------------------------------------------------------------
(* Properties of the choice of the transport *)

\* a request entered through Request::execute or get has got its transport
Routed == request # None /\ entry \in {"execute", "get"}

\* The transport is chosen by the protocol alone: the secured one exactly for
\* the protocol "https", so that no request of protocol "https" is written to
\* a plain stream.
C14_AsClaimed ==
    Routed =>
        /\ transport = "tls" <=> request[1].url.protocol = https
        /\ (request[1].url.protocol = https /\ written # <<>>) => transport # "plain"

\* C14: in a build with the "https" feature, Request::execute and get take
\* the secured transport exactly for the protocol "https" and the plain one
\* for every other protocol, and no "https" request is written to a plain
\* stream; in a build without the feature every request, an "https" one
\* included, goes over the plain transport.
C14_TransportByFeatureAndProtocol ==
    Routed =>
        /\ transport \in {"plain", "tls"}
        /\ feature_https =>
               /\ transport = "tls" <=> request[1].url.protocol = https
               /\ (request[1].url.protocol = https /\ written # <<>>)
                      => transport # "plain"
        /\ ~feature_https => transport = "plain"

C14_Witness ==
    /\ Routed
    /\ feature_https
    /\ request[1].url.protocol = https
    /\ transport = "tls"
    /\ written # <<>>
    /\ pc = "done"
    /\ result # None
    /\ result[1] # Panic

----------------------------------------------------------------------------
(* Properties of the order of the stream operations of execute *)

\* the call went through execute(stream, request) of http.rs
InExecute == entry \in {"execute", "get"}

Reads == {i \in 1..Len(trace) : trace[i].op = "read"}
Writes == {i \in 1..Len(trace) : trace[i].op = "write"}

\* execute returned what it parsed: a Response, or its body for get
Returned == result # None /\ result[1].kind \in {"Ok", "Body"}

\* C16: in one execute call every write of the request (request line, each
\* header, blank line, body) has completed before the first read, no write
\* follows a read, the bytes read only grow, the response is parsed only after
\* the read that returns no more bytes (end of input), and the Response is
\* built from exactly the bytes read.
C16_WriteThenReadToEnd ==
    /\ [] (InExecute =>
             /\ \A i \in Reads : \A j \in Writes : j < i
             /\ Reads # {} =>
                    /\ \A j \in Writes : trace[j].ok
                    /\ pending = {}
                    /\ Cardinality(Writes) =
                           2 + Cardinality(DOMAIN request[1].headers[1])
                             + (IF request[1].body = None THEN 0 ELSE 1)
             /\ Returned =>
                    /\ received = Some(buf)
                    /\ trace[Len(trace)] = [op |-> "read", ok |-> TRUE]
                    /\ LET parsed == new_response_from_complete(from_utf8_lossy(buf))
                       IN  result[1].val = IF entry = "get" THEN parsed.body ELSE parsed)
    /\ [][(InExecute' /\ buf' # buf) =>
             /\ Len(buf) < Len(buf')
             /\ SubSeq(buf', 1, Len(buf)) = buf
             /\ trace' = Append(trace, [op |-> "read", ok |-> TRUE])
             /\ received' = None
             /\ result' = None]_vars
    /\ [][(InExecute' /\ received' # received) =>
             /\ buf' = buf
             /\ received' = Some(buf)
             /\ trace' = Append(trace, [op |-> "read", ok |-> TRUE])
             /\ result' = None]_vars
    /\ [][(InExecute' /\ result' # result /\ Returned') =>
             /\ received # None
             /\ UNCHANGED <<trace, buf, received, written>>]_vars

\* a response that took several reads, after a request with a body
C16_Witness ==
    /\ entry = "execute"
    /\ pc = "done"
    /\ Returned
    /\ request[1].body # None
    /\ Cardinality(Reads) >= 4
    /\ Len(buf) > 2 * MaxChunk
    /\ result[1].val.body = <<"A">>

====
